---- MODULE Spec2Model ----
(***************************************************************************)
(* AnonCam face tracker: FaceTracker / FaceTracker::Impl                   *)
(* (MediapipeWrapper/src/FaceTracker.cpp, include/FaceTracker.h).          *)
(*                                                                         *)
(* float values are modelled in fixed point, one unit = 1/1000 (0.95f is   *)
(* 950, an angle of 1 rad is 1000); a float product or quotient rounds to  *)
(* the nearest unit.  std::cos, std::sin and std::atan2 are tabulated to   *)
(* that precision on the arguments the model evaluates them at.            *)
(***************************************************************************)
EXTENDS Integers, Sequences, FiniteSets, TLC

\* ------------------------------------------------------------------------
\* Bounds of the model
\* ------------------------------------------------------------------------
NumThreads == 2
MaxCalls == 3
NumSeeds == 5
MaxFairCalls == 2

Threads == 1..NumThreads

\* ------------------------------------------------------------------------
\* float arithmetic
\* ------------------------------------------------------------------------
Scale == 1000

Abs(a) == IF a < 0 THEN -a ELSE a

Sgn(a) == IF a < 0 THEN -1 ELSE IF a > 0 THEN 1 ELSE 0

\* float * float
FMul(a, b) == Sgn(a * b) * ((Abs(a * b) + (Scale \div 2)) \div Scale)

\* float / float  (b # 0)
FDiv(a, b) == Sgn(a) * Sgn(b) * ((Abs(a) * Scale + (Abs(b) \div 2)) \div Abs(b))

kPi == 3142

CosTable(a) ==
    CASE a = -2678 -> -894
      [] a = -644 -> 800
      [] a = -500 -> 878
      [] a = -450 -> 900
      [] a = -400 -> 921
      [] a = -188 -> 982
      [] a = -164 -> 987
      [] a = -150 -> 989
      [] a = -142 -> 990
      [] a = -113 -> 994
      [] a = -100 -> 995
      [] a = -75 -> 997
      [] a = -50 -> 999
      [] a = -38 -> 999
      [] a = 0 -> 1000
      [] a = 38 -> 999
      [] a = 50 -> 999
      [] a = 75 -> 997
      [] a = 100 -> 995
      [] a = 142 -> 990
      [] a = 157 -> 988
      [] a = 180 -> 984
      [] a = 197 -> 981
      [] a = 283 -> 960
      [] a = 314 -> 951
      [] a = 322 -> 949
      [] a = 471 -> 891
      [] a = 524 -> 866
      [] a = 540 -> 858
      [] a = 572 -> 841
      [] a = 628 -> 809
      [] a = 777 -> 713
      [] a = 785 -> 707
      [] a = 786 -> 707
      [] a = 855 -> 656
      [] a = 927 -> 600
      [] a = 943 -> 587
      [] a = 1100 -> 454
      [] a = 1144 -> 414
      [] a = 1257 -> 309
      [] a = 1414 -> 156
      [] a = 1426 -> 144
      [] a = 1571 -> 0
      [] a = 1716 -> -145
      [] a = 1728 -> -157
      [] a = 1885 -> -309
      [] a = 1998 -> -414
      [] a = 2042 -> -454
      [] a = 2111 -> -514
      [] a = 2199 -> -588
      [] a = 2287 -> -657
      [] a = 2357 -> -708
      [] a = 2514 -> -809
      [] a = 2570 -> -841
      [] a = 2671 -> -891
      [] a = 2828 -> -951
      [] a = 2859 -> -960
      [] a = 2897 -> -970
      [] a = 2985 -> -988
      [] a = 3142 -> -1000
      [] a = 3425 -> -960
      [] a = 3714 -> -841
      [] a = 3997 -> -656
      [] a = 4286 -> -414
      [] a = 4568 -> -144
      [] a = 4858 -> 145
      [] a = 5140 -> 415
      [] a = 5429 -> 657
      [] a = 5712 -> 841
      [] a = 6001 -> 960
      [] a = 6284 -> 1000

SinTable(a) ==
    CASE a = -2678 -> -447
      [] a = -644 -> -600
      [] a = -500 -> -479
      [] a = -450 -> -435
      [] a = -400 -> -389
      [] a = -188 -> -187
      [] a = -164 -> -163
      [] a = -150 -> -149
      [] a = -142 -> -142
      [] a = -113 -> -113
      [] a = -100 -> -100
      [] a = -75 -> -75
      [] a = -50 -> -50
      [] a = -38 -> -38
      [] a = 0 -> 0
      [] a = 38 -> 38
      [] a = 50 -> 50
      [] a = 75 -> 75
      [] a = 100 -> 100
      [] a = 142 -> 142
      [] a = 157 -> 156
      [] a = 180 -> 179
      [] a = 197 -> 196
      [] a = 283 -> 279
      [] a = 314 -> 309
      [] a = 322 -> 316
      [] a = 471 -> 454
      [] a = 524 -> 500
      [] a = 540 -> 514
      [] a = 572 -> 541
      [] a = 628 -> 588
      [] a = 777 -> 701
      [] a = 785 -> 707
      [] a = 786 -> 708
      [] a = 855 -> 755
      [] a = 927 -> 800
      [] a = 943 -> 809
      [] a = 1100 -> 891
      [] a = 1144 -> 910
      [] a = 1257 -> 951
      [] a = 1414 -> 988
      [] a = 1426 -> 990
      [] a = 1571 -> 1000
      [] a = 1716 -> 989
      [] a = 1728 -> 988
      [] a = 1885 -> 951
      [] a = 1998 -> 910
      [] a = 2042 -> 891
      [] a = 2111 -> 858
      [] a = 2199 -> 809
      [] a = 2287 -> 754
      [] a = 2357 -> 707
      [] a = 2514 -> 587
      [] a = 2570 -> 541
      [] a = 2671 -> 453
      [] a = 2828 -> 308
      [] a = 2859 -> 279
      [] a = 2897 -> 242
      [] a = 2985 -> 156
      [] a = 3142 -> 0
      [] a = 3425 -> -280
      [] a = 3714 -> -542
      [] a = 3997 -> -755
      [] a = 4286 -> -910
      [] a = 4568 -> -990
      [] a = 4858 -> -989
      [] a = 5140 -> -910
      [] a = 5429 -> -754
      [] a = 5712 -> -541
      [] a = 6001 -> -278
      [] a = 6284 -> 1

Atan2Table(dy, dx) ==
    CASE dy = -50 /\ dx = -100 -> -2678
      [] dy = -50 /\ dx = 350 -> -142
      [] dy = 0 /\ dx = -150 -> 3142
      [] dy = 0 /\ dx = 300 -> 0
      [] dy = 0 /\ dx = 400 -> 0
      [] dy = 50 /\ dx = -200 -> 2897
      [] dy = 50 /\ dx = 250 -> 197
      [] dy = 50 /\ dx = 350 -> 142
      [] dy = 100 /\ dx = 300 -> 322
      [] dy = 150 /\ dx = 250 -> 540
      [] dy = 200 /\ dx = -120 -> 2111
      [] dy = 200 /\ dx = 200 -> 785

\* std::cos(angle), std::sin(angle), std::atan2(dy, dx)
Cos(angle) == CosTable(angle)

Sin(angle) == SinTable(angle)

Atan2(dy, dx) == Atan2Table(dy, dx)

\* ------------------------------------------------------------------------
\* Matrix3x3 (row-major float m[9]; m[k] of the source is m[k + 1] here)
\* ------------------------------------------------------------------------
Matrix3x3 == <<Scale, 0, 0,  0, Scale, 0,  0, 0, Scale>>

rotationX(angle) ==
    LET c == Cos(angle)
        s == Sin(angle)
    IN  [Matrix3x3 EXCEPT ![5] = c, ![6] = -s, ![8] = s, ![9] = c]

rotationY(angle) ==
    LET c == Cos(angle)
        s == Sin(angle)
    IN  [Matrix3x3 EXCEPT ![1] = c, ![3] = s, ![7] = -s, ![9] = c]

rotationZ(angle) ==
    LET c == Cos(angle)
        s == Sin(angle)
    IN  [Matrix3x3 EXCEPT ![1] = c, ![2] = -s, ![4] = s, ![5] = c]

\* Matrix3x3::operator*  (this = a, other = b)
Mat3MulSwapped(a, b) ==
    [idx \in 1..9 |->
        LET i == (idx - 1) \div 3
            j == (idx - 1) % 3
        IN  ((0 + FMul(b[i * 3 + 0 + 1], a[0 * 3 + j + 1]))
               + FMul(b[i * 3 + 1 + 1], a[1 * 3 + j + 1]))
               + FMul(b[i * 3 + 2 + 1], a[2 * 3 + j + 1])]

Mat3Mul(a, b) ==
    [idx \in 1..9 |->
        LET i == (idx - 1) \div 3
            j == (idx - 1) % 3
        IN  ((0 + FMul(a[i * 3 + 0 + 1], b[0 * 3 + j + 1]))
               + FMul(a[i * 3 + 1 + 1], b[1 * 3 + j + 1]))
               + FMul(a[i * 3 + 2 + 1], b[2 * 3 + j + 1])]

\* ------------------------------------------------------------------------
\* Landmark, HeadPose, FaceResult::KeyPoints, FaceResult
\* ------------------------------------------------------------------------
Landmark(x, y, z) == [x |-> x, y |-> y, z |-> z]

KeyPointNames ==
    {"leftEye", "rightEye", "noseTip", "upperLip", "chin", "leftEar", "rightEar", "forehead"}

\* value-initialised members (FaceResult{} and lastResult_())
ZeroPose ==
    [translation |-> <<0, 0, 0>>, rotation |-> <<0, 0, 0>>, modelMatrix |-> [i \in 1..16 |-> 0]]

ZeroKeyPoints == [n \in KeyPointNames |-> Landmark(0, 0, 0)]

\* FaceResult{} : hasFace = false, confidence = 0.0f, no landmarks, zeroed pose and keyPoints
DefaultFaceResult ==
    [hasFace |-> FALSE, confidence |-> 0, landmarks |-> <<>>,
     pose |-> ZeroPose, keyPoints |-> ZeroKeyPoints]

\* The members without an initialiser (pose, keyPoints) of a default-initialised
\* automatic FaceResult are indeterminate: the bytes are whatever the stack
\* held, here every float equal to g for some g of Indeterminate.
Indeterminate == {0, 777}

IndeterminatePose(g) ==
    [translation |-> <<g, g, g>>, rotation |-> <<g, g, g>>, modelMatrix |-> [i \in 1..16 |-> g]]

IndeterminateKeyPoints(g) == [n \in KeyPointNames |-> Landmark(g, g, g)]

\* "FaceResult result; result.hasFace = false;"
LocalFaceResult(g) ==
    [hasFace |-> FALSE, confidence |-> 0, landmarks |-> <<>>,
     pose |-> IndeterminatePose(g), keyPoints |-> IndeterminateKeyPoints(g)]

\* landmarks[i] of a std::vector<Landmark> (0-based)
At(landmarks, i) == landmarks[i + 1]

\* ------------------------------------------------------------------------
\* The stub landmark source of Impl::processFrame
\* ------------------------------------------------------------------------
kNumLandmarks == 478
centerX == 500
centerY == 500
faceWidth == 300
faceHeight == 400

MockLandmark(i) ==
    LET u == FDiv((i % 23) * Scale, 22 * Scale)
        v == FDiv((i \div 23) * Scale, 20 * Scale)
        angle == FMul(FMul(u, 2 * Scale), kPi)
        radiusX == FMul(FMul(faceWidth, 500), Sin(FMul(v, kPi)))
    IN  Landmark(centerX + FMul(radiusX, Cos(angle)),
                 centerY + FMul(v - 500, faceHeight),
                 FMul(Cos(FMul(v, kPi)), 100))

MockLandmarksShort(n) == [k \in 1..(n - 1) |-> MockLandmark(k - 1)]

MockLandmarks(n) == [k \in 1..n |-> MockLandmark(k - 1)]

\* lines 151-181: result.hasFace = true; result.confidence = 0.95f; 478 push_backs
MockMesh == MockLandmarks(kNumLandmarks)

Detect(result) ==
    [result EXCEPT !.hasFace = TRUE, !.confidence = 950, !.landmarks = MockMesh]

\* ------------------------------------------------------------------------
\* namespace LandmarkIndex
\* ------------------------------------------------------------------------
kLeftEye == 33
kRightEye == 263
kNoseTip == 1
kUpperLip == 13
kChin == 152
kLeftEar == 234
kRightEar == 454
kForehead == 10
kExpectedLandmarks == 478

\* FaceTracker::extractKeyPoints(landmarks, kp): the value of kp afterwards
extractKeyPointsPartial(landmarks, kp) ==
    IF Len(landmarks) < kNoseTip + 1
    THEN kp
    ELSE [kp EXCEPT !.noseTip = At(landmarks, kNoseTip)]

extractKeyPoints(landmarks, kp) ==
    IF Len(landmarks) < kExpectedLandmarks
    THEN kp
    ELSE [leftEye  |-> At(landmarks, kLeftEye),
          rightEye |-> At(landmarks, kRightEye),
          noseTip  |-> At(landmarks, kNoseTip),
          upperLip |-> At(landmarks, kUpperLip),
          chin     |-> At(landmarks, kChin),
          leftEar  |-> At(landmarks, kLeftEar),
          rightEar |-> At(landmarks, kRightEar),
          forehead |-> At(landmarks, kForehead)]

\* FaceTracker::computeHeadPose(landmarks, pose): the value of pose afterwards
computeHeadPoseSwapped(landmarks, pose) ==
    IF Len(landmarks) < 478
    THEN pose
    ELSE LET leftEye  == At(landmarks, kLeftEye)
             rightEye == At(landmarks, kRightEye)
             noseTip  == At(landmarks, kNoseTip)
             eyeCenterX == FMul(leftEye.x + rightEye.x, 500)
             eyeY == FMul(leftEye.y + rightEye.y, 500)
             dx == rightEye.x - leftEye.x
             dy == rightEye.y - leftEye.y
         IN  [pose EXCEPT
                !.rotation = <<FMul(eyeCenterX - 500, 2000),
                               FMul(eyeY - noseTip.y, 1500),
                               Atan2(dy, dx)>>,
                !.translation = <<noseTip.x - 500, noseTip.y - 500, noseTip.z>>]

computeHeadPose(landmarks, pose) ==
    IF Len(landmarks) < 478
    THEN pose
    ELSE LET leftEye  == At(landmarks, kLeftEye)
             rightEye == At(landmarks, kRightEye)
             noseTip  == At(landmarks, kNoseTip)
             eyeCenterX == FMul(leftEye.x + rightEye.x, 500)
             eyeY == FMul(leftEye.y + rightEye.y, 500)
             dx == rightEye.x - leftEye.x
             dy == rightEye.y - leftEye.y
         IN  [pose EXCEPT
                !.rotation = <<FMul(eyeY - noseTip.y, 1500),
                               FMul(eyeCenterX - 500, 2000),
                               Atan2(dy, dx)>>,
                !.translation = <<noseTip.x - 500, noseTip.y - 500, noseTip.z>>]

\* FaceTracker::normalizeModelMatrix(pose, matrix): the 16 floats at matrix afterwards
\* (matrix[k] of the source is matrix[k + 1] here)
EmbedPose(pose, base) ==
    \* R = Rz * Ry * Rx; every matrix is bound as a value, computed once
    CHOOSE m \in
        {[base EXCEPT
            ![1] = R[1], ![2] = R[2],  ![3] = R[3],
            ![5] = R[4], ![6] = R[5],  ![7] = R[6],
            ![9] = R[7], ![10] = R[8], ![11] = R[9],
            ![13] = FMul(pose.translation[1], 2000),
            ![14] = FMul(-pose.translation[2], 2000),
            ![15] = FMul(pose.translation[3], 1000) + 1000] :
                R \in {Mat3Mul(RzRy, Rx) :
                          RzRy \in {Mat3Mul(Rz, Ry) : Rz \in {rotationZ(pose.rotation[3])},
                                                      Ry \in {rotationY(pose.rotation[2])}},
                          Rx \in {rotationX(pose.rotation[1])}}} : TRUE

normalizeModelMatrixNoFill(pose, matrix) ==
    EmbedPose(pose, [matrix EXCEPT ![1] = Scale, ![6] = Scale, ![11] = Scale, ![16] = Scale])

normalizeModelMatrix(pose, matrix) ==
    LET filled == [i \in 1..16 |-> 0]
    IN  EmbedPose(pose, [filled EXCEPT ![1] = Scale, ![6] = Scale, ![11] = Scale, ![16] = Scale])

\* FaceTracker::processFrame, lines 233-239: what is returned for the Impl's result
Derive(result) ==
    IF result.hasFace
    THEN \* key points and pose are bound as values, each computed once
         CHOOSE r \in
             {[result EXCEPT !.keyPoints = kp,
                             !.pose = [pose EXCEPT !.modelMatrix =
                                          normalizeModelMatrix(pose, pose.modelMatrix)]] :
                  kp \in {extractKeyPoints(result.landmarks, result.keyPoints)},
                  pose \in {computeHeadPose(result.landmarks, result.pose)}} : TRUE
    ELSE result

\* ------------------------------------------------------------------------
\* State
\* ------------------------------------------------------------------------
VARIABLES
    lastResult_,   \* Impl::lastResult_
    mutex_,        \* Impl::mutex_ : 0 when free, else the thread that holds it
    pc,            \* pc[t]: where thread t is in its current call
    pixelBuffer,   \* pixelBuffer[t]: the argument of t's processFrame call
    result,        \* result[t]: the FaceResult local to t's call; once the call is done, what it returned
    calls,         \* number of calls issued on the session so far
    hist,          \* history of the session's lock sections
    seen,          \* seen[t]: the history when t's getLastResult copied the cache
    fnPc,          \* pure-function runs: "ready" before the call, "called" after
    fnIn,          \* pure-function runs: the arguments
    fnOut          \* pure-function runs: the outputs

sessionVars == <<lastResult_, mutex_, pc, pixelBuffer, result, calls, hist, seen>>

fnVars == <<fnPc, fnIn, fnOut>>

vars == <<lastResult_, mutex_, pc, pixelBuffer, result, calls, hist, seen, fnPc, fnIn, fnOut>>

PfStages == {"pf_lock", "pf_check", "pf_store", "pf_wrap"}

DoneStages == {"pf_done", "glr_done", "rst_done"}

\* lastWrite: what wrote the cache last; writes: how many writes so far;
\* stores: successful processFrame lock sections since the last reset;
\* over: the cache held a face when the last reset ran;
\* nullSeen: a null-frame processFrame ran since the last reset
NoHist == [lastWrite |-> "init", writes |-> 0, stores |-> 0, over |-> FALSE, nullSeen |-> FALSE]

\* quiet: no processFrame call was in flight; clean: ~nullSeen
NoSeen ==
    [lastWrite |-> "none", writes |-> 0, stores |-> 0, over |-> FALSE, quiet |-> FALSE,
     clean |-> FALSE]

\* Impl::Impl : lastResult_() value-initialises the cache; the mutex is free
SessionInit ==
    /\ lastResult_ = DefaultFaceResult
    /\ mutex_ = 0
    /\ pc = [t \in Threads |-> "idle"]
    /\ pixelBuffer = [t \in Threads |-> "null"]
    /\ result = [t \in Threads |-> DefaultFaceResult]
    /\ calls = 0
    /\ hist = NoHist
    /\ seen = [t \in Threads |-> NoSeen]

FnIdle ==
    /\ fnPc = "none"
    /\ fnIn = <<>>
    /\ fnOut = <<>>

\* ------------------------------------------------------------------------
\* FaceTracker::processFrame(pixelBuffer) on thread t
\* ------------------------------------------------------------------------
CallProcessFrame(t, pb) ==
    /\ pc[t] = "idle"
    /\ calls < MaxCalls
    /\ calls' = calls + 1
    /\ pixelBuffer' = [pixelBuffer EXCEPT ![t] = pb]
    /\ pc' = [pc EXCEPT ![t] = "pf_lock"]
    /\ UNCHANGED <<lastResult_, mutex_, result, hist, seen>>

\* std::lock_guard<std::mutex> lock(mutex_)
LockUnguarded(t) == TRUE

LockFree(t) == mutex_ = 0

\* lines 85-88: take the lock, default-initialise result, result.hasFace = false
PfLock(t, g) ==
    /\ pc[t] = "pf_lock"
    /\ LockFree(t)
    /\ mutex_' = t
    /\ result' = [result EXCEPT ![t] = LocalFaceResult(g)]
    /\ pc' = [pc EXCEPT ![t] = "pf_check"]
    /\ UNCHANGED <<lastResult_, pixelBuffer, calls, hist, seen>>

\* lines 90-92: if (!pixelBuffer) return result;  (the guard's destructor unlocks)
NullFrameCacheStored(cache, res) == res

NullFrameCache(cache, res) == cache

\* the lock_guard's destructor runs on the early return: the mutex is free again
EarlyReturnKeepsLock(t) == t

EarlyReturnUnlock(t) == 0

PfNullReturn(t) ==
    /\ pc[t] = "pf_check"
    /\ pixelBuffer[t] = "null"
    /\ lastResult_' = NullFrameCache(lastResult_, result[t])
    /\ mutex_' = EarlyReturnUnlock(t)
    /\ pc' = [pc EXCEPT ![t] = "pf_wrap"]
    /\ hist' = [hist EXCEPT !.nullSeen = TRUE]
    /\ UNCHANGED <<pixelBuffer, result, calls, seen>>

\* lines 94-181: the stub detection fills result
PfDetect(t) ==
    /\ pc[t] = "pf_check"
    /\ pixelBuffer[t] # "null"
    /\ result' = [result EXCEPT ![t] = Detect(result[t])]
    /\ pc' = [pc EXCEPT ![t] = "pf_store"]
    /\ UNCHANGED <<lastResult_, mutex_, pixelBuffer, calls, hist, seen>>

\* lines 183-185: lastResult_ = result; return result;  (the guard's destructor unlocks)
Stored(cache, res) == res

PfStore(t) ==
    /\ pc[t] = "pf_store"
    /\ lastResult_' = Stored(lastResult_, result[t])
    /\ mutex_' = 0
    /\ pc' = [pc EXCEPT ![t] = "pf_wrap"]
    /\ hist' = [hist EXCEPT !.lastWrite = "store", !.writes = @ + 1, !.stores = @ + 1]
    /\ UNCHANGED <<pixelBuffer, result, calls, seen>>

\* lines 231-239, after impl_->processFrame returned: derive and return
PfWrapper(t) ==
    /\ pc[t] = "pf_wrap"
    /\ result' = [result EXCEPT ![t] = Derive(result[t])]
    /\ pc' = [pc EXCEPT ![t] = "pf_done"]
    /\ UNCHANGED <<lastResult_, mutex_, pixelBuffer, calls, hist, seen>>

\* ------------------------------------------------------------------------
\* FaceTracker::getLastResult() on thread t
\* ------------------------------------------------------------------------
CallGetLastResult(t) ==
    /\ pc[t] = "idle"
    /\ calls < MaxCalls
    /\ calls' = calls + 1
    /\ pc' = [pc EXCEPT ![t] = "glr_lock"]
    /\ UNCHANGED <<lastResult_, mutex_, pixelBuffer, result, hist, seen>>

GlrLock(t) ==
    /\ pc[t] = "glr_lock"
    /\ LockFree(t)
    /\ mutex_' = t
    /\ pc' = [pc EXCEPT ![t] = "glr_copy"]
    /\ UNCHANGED <<lastResult_, pixelBuffer, result, calls, hist, seen>>

\* return lastResult_;  (copied out, then the guard's destructor unlocks)
GlrCopy(t) ==
    /\ pc[t] = "glr_copy"
    /\ result' = [result EXCEPT ![t] = lastResult_]
    /\ mutex_' = 0
    /\ pc' = [pc EXCEPT ![t] = "glr_done"]
    /\ seen' = [seen EXCEPT ![t] =
                  [lastWrite |-> hist.lastWrite, writes |-> hist.writes, stores |-> hist.stores,
                   over |-> hist.over,
                   quiet |-> \A u \in Threads : pc[u] \notin PfStages,
                   clean |-> ~hist.nullSeen]]
    /\ UNCHANGED <<lastResult_, pixelBuffer, calls, hist>>

\* ------------------------------------------------------------------------
\* FaceTracker::reset() on thread t
\* ------------------------------------------------------------------------
CallReset(t) ==
    /\ pc[t] = "idle"
    /\ calls < MaxCalls
    /\ calls' = calls + 1
    /\ pc' = [pc EXCEPT ![t] = "rst_lock"]
    /\ UNCHANGED <<lastResult_, mutex_, pixelBuffer, result, hist, seen>>

RstLock(t) ==
    /\ pc[t] = "rst_lock"
    /\ LockFree(t)
    /\ mutex_' = t
    /\ pc' = [pc EXCEPT ![t] = "rst_assign"]
    /\ UNCHANGED <<lastResult_, pixelBuffer, result, calls, hist, seen>>

\* lastResult_ = FaceResult{};
ResetValueKeepsLandmarks(cache) == [DefaultFaceResult EXCEPT !.landmarks = cache.landmarks]

ResetValue(cache) == DefaultFaceResult

RstAssign(t) ==
    /\ pc[t] = "rst_assign"
    /\ lastResult_' = ResetValue(lastResult_)
    /\ mutex_' = 0
    /\ pc' = [pc EXCEPT ![t] = "rst_done"]
    /\ hist' = [hist EXCEPT !.lastWrite = "reset", !.writes = @ + 1, !.stores = 0,
                            !.over = lastResult_.hasFace, !.nullSeen = FALSE]
    /\ UNCHANGED <<pixelBuffer, result, calls, seen>>

\* the caller takes the returned value; the call's locals are gone
Return(t) ==
    /\ pc[t] \in DoneStages
    /\ pc' = [pc EXCEPT ![t] = "idle"]
    /\ pixelBuffer' = [pixelBuffer EXCEPT ![t] = "null"]
    /\ result' = [result EXCEPT ![t] = DefaultFaceResult]
    /\ seen' = [seen EXCEPT ![t] = NoSeen]
    /\ UNCHANGED <<lastResult_, mutex_, calls, hist>>

Init == SessionInit /\ FnIdle

Next ==
    /\ UNCHANGED fnVars
    /\ \E t \in Threads :
          \/ \E pb \in {"null", "frame"} : CallProcessFrame(t, pb)
          \/ \E g \in Indeterminate : PfLock(t, g)
          \/ PfNullReturn(t)
          \/ PfDetect(t)
          \/ PfStore(t)
          \/ PfWrapper(t)
          \/ CallGetLastResult(t)
          \/ GlrLock(t)
          \/ GlrCopy(t)
          \/ CallReset(t)
          \/ RstLock(t)
          \/ RstAssign(t)
          \/ Return(t)

Spec == Init /\ [][Next]_vars

\* thread t runs the next step of its call: it gets the mutex it is blocked on
\* in std::lock_guard's constructor, or goes on from where it is (the stub
\* detection of lines 151-181 always returns)
Step(t) ==
    /\ UNCHANGED fnVars
    /\ \/ \E g \in Indeterminate : PfLock(t, g)
       \/ GlrLock(t)
       \/ RstLock(t)
       \/ PfNullReturn(t)
       \/ PfDetect(t)
       \/ PfStore(t)
       \/ PfWrapper(t)
       \/ GlrCopy(t)
       \/ RstAssign(t)

\* The callers issue at most MaxFairCalls calls in all.
FairNext == Next /\ calls' <= MaxFairCalls

\* Fair scheduling: a thread whose next step is possible again and again takes
\* it at last - a running thread goes on, a thread blocked on the mutex gets it
\* once it is free often enough.  Callers are free to make or not make a call.
SpecFair ==
    /\ Init
    /\ [][FairNext]_vars
    /\ \A t \in Threads : SF_vars(Step(t))

\* ------------------------------------------------------------------------
\* Runs of the pure helpers on their own: the session stays as constructed
\* ------------------------------------------------------------------------
SessionIdle == SessionInit

\* a landmark sequence of length n, every entry different from its neighbours
GenLandmarks(n, seed) ==
    [k \in 1..n |-> Landmark((seed * 131 + k * 7) % 1001,
                             (seed * 17 + k * 3) % 1001,
                             ((seed + k) % 201) - 100)]

KpLengths == {0, 1, 477, 478, 479, 500}

\* extractKeyPoints(landmarks, kp)
KeyPointsInit ==
    /\ SessionIdle
    /\ fnPc = "ready"
    /\ fnIn \in {[landmarks |-> GenLandmarks(n, s), kp |-> IndeterminateKeyPoints(g)] :
                    n \in KpLengths, s \in 1..NumSeeds, g \in Indeterminate}
    /\ fnOut = <<>>

KeyPointsCall ==
    /\ fnPc = "ready"
    /\ fnOut' = extractKeyPoints(fnIn.landmarks, fnIn.kp)
    /\ fnPc' = "called"
    /\ UNCHANGED fnIn
    /\ UNCHANGED sessionVars

SpecKeyPoints == KeyPointsInit /\ [][KeyPointsCall]_vars

\* a landmark sequence of length n with the given eyes and nose tip
FaceWith(le, re, nt, n) ==
    [k \in 1..n |-> IF k - 1 = 33 THEN le
                    ELSE IF k - 1 = 263 THEN re
                    ELSE IF k - 1 = 1 THEN nt
                    ELSE Landmark((k * 7) % 1001, 900, (k % 201) - 100)]

LeftEyes == {Landmark(350, 450, 0), Landmark(300, 500, 0), Landmark(400, 400, 0)}

RightEyes ==
    {Landmark(650, 450, 0), Landmark(700, 500, 0), Landmark(600, 600, 0), Landmark(200, 450, 0)}

NoseTips == {Landmark(500, 550, 0), Landmark(450, 500, 100)}

PoseLengths == {477, 478, 479}

\* computeHeadPose(landmarks, pose), and processFrame's derivation for a
\* detection with these landmarks
PoseInit ==
    /\ SessionIdle
    /\ fnPc = "ready"
    /\ fnIn \in {[leftEye |-> le, rightEye |-> re, noseTip |-> nt,
                  landmarks |-> FaceWith(le, re, nt, n),
                  pose |-> IndeterminatePose(g),
                  result |-> [Detect(LocalFaceResult(g)) EXCEPT !.landmarks = FaceWith(le, re, nt, n)]] :
                    le \in LeftEyes, re \in RightEyes, nt \in NoseTips,
                    n \in PoseLengths, g \in Indeterminate}
    /\ fnOut = <<>>

PoseCall ==
    /\ fnPc = "ready"
    /\ fnOut' = [pose |-> computeHeadPose(fnIn.landmarks, fnIn.pose),
                 result |-> Derive(fnIn.result)]
    /\ fnPc' = "called"
    /\ UNCHANGED fnIn
    /\ UNCHANGED sessionVars

SpecPose == PoseInit /\ [][PoseCall]_vars

MatrixAngles == {0, 524, 927, -644, 1571}

MatrixTranslations == {<<0, 0, 0>>, <<0, 50, 0>>, <<-120, 300, 100>>}

\* normalizeModelMatrix(pose, matrix)
MatrixInit ==
    /\ SessionIdle
    /\ fnPc = "ready"
    /\ fnIn \in {[pose |-> [translation |-> tr, rotation |-> <<p, y, r>>,
                            modelMatrix |-> [i \in 1..16 |-> g]],
                  matrix |-> [i \in 1..16 |-> g]] :
                    p \in MatrixAngles, y \in MatrixAngles, r \in MatrixAngles,
                    tr \in MatrixTranslations, g \in Indeterminate}
    /\ fnOut = <<>>

MatrixCall ==
    /\ fnPc = "ready"
    /\ fnOut' = normalizeModelMatrix(fnIn.pose, fnIn.matrix)
    /\ fnPc' = "called"
    /\ UNCHANGED fnIn
    /\ UNCHANGED sessionVars

SpecMatrix == MatrixInit /\ [][MatrixCall]_vars

\* ------------------------------------------------------------------------
\* Properties
\* ------------------------------------------------------------------------

\* C1: a getLastResult whose copy was taken when the latest write to the cache
\* was a reset() returns hasFace = false and no landmarks, whatever the cache
\* held before that reset.
C1_ResetThenGetLastResult ==
    \A t \in Threads :
        (pc[t] = "glr_done" /\ seen[t].lastWrite = "reset")
            => (result[t].hasFace = FALSE /\ result[t].landmarks = <<>>)

\* a getLastResult returned after a reset that wiped a cached face
C1_Witness ==
    \E t \in Threads :
        /\ pc[t] = "glr_done"
        /\ seen[t].lastWrite = "reset"
        /\ seen[t].over
        /\ result[t].hasFace = FALSE

\* the threads whose valid-frame processFrame has returned and that still hold
\* the FaceResult it returned
Holders == {u \in Threads : pc[u] = "pf_done" /\ pixelBuffer[u] = "frame"}

\* C2: when all the valid-frame processFrame calls made since the last reset
\* have returned (their results are the ones the Holders hold), no null-frame
\* call came with them and nothing wrote the cache since, getLastResult returns
\* a value equal to one of the FaceResults those calls returned.
C2_LastResultIsOneReturned ==
    \A t \in Threads :
        (/\ pc[t] = "glr_done"
         /\ seen[t].lastWrite = "store" /\ seen[t].quiet /\ seen[t].clean
         /\ hist.writes = seen[t].writes
         /\ Cardinality(Holders) = seen[t].stores)
            => \E u \in Holders : result[t] = result[u]

\* thread t is between taking and releasing the lock
InLockSection(t) == pc[t] \in {"pf_check", "pf_store", "glr_copy", "rst_assign"}

\* thread t's processFrame found a face and has yet to derive key points, pose and matrix
Deriving(t) == pc[t] = "pf_wrap" /\ result[t].hasFace

\* thread t has started executing its call (it got the lock) and has not completed it
InCall(t) == InLockSection(t) \/ Deriving(t)

\* C3 as stated: at most one call executes at a time, a processFrame call
\* counting as executing until it has derived key points, pose and matrix.
C3_WholeCallExclusive ==
    \A t, u \in Threads : (t # u) => ~(InCall(t) /\ InCall(u))

\* C3 as amended: the lock is held from the start of Impl::processFrame to the
\* store of the cache (or the early return), so at most one lock section of
\* processFrame/getLastResult/reset runs at a time; the derivation runs after
\* the release.
C3_LockSectionsExclusive ==
    /\ \A t, u \in Threads : (t # u) => ~(InLockSection(t) /\ InLockSection(u))
    /\ \A t \in Threads : InLockSection(t) <=> (mutex_ = t)
    /\ \A t \in Threads : (pc[t] = "pf_wrap") => (mutex_ # t)

\* one processFrame is deriving, lock released, while another call is in its lock section
C3_Witness ==
    \E t, u \in Threads :
        /\ t # u
        /\ Deriving(t)
        /\ InLockSection(u)
        /\ mutex_ = u

\* C4: processFrame with a null frame returns hasFace = false and every other
\* field at its default value.
C4_NullFrameAllDefault ==
    \A t \in Threads :
        (pc[t] = "pf_done" /\ pixelBuffer[t] = "null") => (result[t] = DefaultFaceResult)

\* C5: extractKeyPoints on fewer than 478 landmarks leaves all eight fields as
\* they were (an all-zero KeyPoints stays all-zero, nothing is filled); on 478
\* or more each field is the landmark at its fixed index.
C5_KeyPointsAllOrNothing ==
    (fnPc = "called") =>
        IF Len(fnIn.landmarks) < 478
        THEN /\ fnOut = fnIn.kp
             /\ (fnIn.kp = ZeroKeyPoints) => (\A n \in KeyPointNames : fnOut[n] = Landmark(0, 0, 0))
        ELSE /\ fnOut.leftEye  = fnIn.landmarks[33 + 1]
             /\ fnOut.rightEye = fnIn.landmarks[263 + 1]
             /\ fnOut.noseTip  = fnIn.landmarks[1 + 1]
             /\ fnOut.upperLip = fnIn.landmarks[13 + 1]
             /\ fnOut.chin     = fnIn.landmarks[152 + 1]
             /\ fnOut.leftEar  = fnIn.landmarks[234 + 1]
             /\ fnOut.rightEar = fnIn.landmarks[454 + 1]
             /\ fnOut.forehead = fnIn.landmarks[10 + 1]

\* 477 landmarks and an all-zero KeyPoints: still all-zero after the call
C5_Witness ==
    /\ fnPc = "called"
    /\ "kp" \in DOMAIN fnIn
    /\ Len(fnIn.landmarks) = 477
    /\ fnIn.kp = ZeroKeyPoints
    /\ fnOut = ZeroKeyPoints

\* C6: for a detection of 478 landmarks processFrame returns hasFace = true,
\* the detection's confidence, and yaw = ((leftEye.x + rightEye.x)/2 - 0.5)*2,
\* pitch = ((leftEye.y + rightEye.y)/2 - noseTip.y)*1.5, roll = atan2 of the
\* vector from the left to the right eye (0 for level eyes, right eye at the
\* larger x), translation = (noseTip.x - 0.5, noseTip.y - 0.5, noseTip.z);
\* the example eyes and nose give (pitch, yaw, roll) = (-0.15, 0, 0) and
\* translation (0, 0.05, 0).  Under 478 landmarks computeHeadPose leaves the
\* pose as it was.
C6_PoseFromEyesAndNose ==
    (fnPc = "called" /\ "leftEye" \in DOMAIN fnIn) =>
        LET le == fnIn.leftEye
            re == fnIn.rightEye
            nt == fnIn.noseTip
            out == fnOut.result
            yaw == FMul(FDiv(le.x + re.x, 2 * Scale) - 500, 2 * Scale)
            pitch == FMul(FDiv(le.y + re.y, 2 * Scale) - nt.y, 1500)
            roll == Atan2(re.y - le.y, re.x - le.x)
        IN  /\ out.hasFace = TRUE
            /\ out.confidence = 950
            /\ IF Len(fnIn.landmarks) >= 478
               THEN /\ out.pose.rotation = <<pitch, yaw, roll>>
                    /\ out.pose.translation = <<nt.x - 500, nt.y - 500, nt.z>>
                    /\ fnOut.pose.rotation = out.pose.rotation
                    /\ fnOut.pose.translation = out.pose.translation
                    /\ (le.y = re.y /\ re.x > le.x) => (out.pose.rotation[3] = 0)
                    /\ (le = Landmark(350, 450, 0) /\ re = Landmark(650, 450, 0)
                           /\ nt = Landmark(500, 550, 0))
                         => (out.pose.rotation = <<-150, 0, 0>>
                               /\ out.pose.translation = <<0, 50, 0>>)
               ELSE /\ fnOut.pose = fnIn.pose
                    /\ out.pose.rotation = fnIn.result.pose.rotation
                    /\ out.pose.translation = fnIn.result.pose.translation

\* the example of the claim, on exactly 478 landmarks
C6_Witness ==
    /\ fnPc = "called"
    /\ "leftEye" \in DOMAIN fnIn
    /\ fnIn.leftEye = Landmark(350, 450, 0)
    /\ fnIn.rightEye = Landmark(650, 450, 0)
    /\ fnIn.noseTip = Landmark(500, 550, 0)
    /\ Len(fnIn.landmarks) = 478
    /\ fnOut.result.hasFace
    /\ fnOut.result.pose.rotation = <<-150, 0, 0>>
    /\ fnOut.result.pose.translation = <<0, 50, 0>>

IsMatrixRun == fnPc = "called" /\ "matrix" \in DOMAIN fnIn

\* C7: with rotation (0,0,0) normalizeModelMatrix writes the identity with
\* matrix[12] = 2*tx, matrix[13] = -2*ty, matrix[14] = tz + 1, whatever the
\* buffer held before.
C7_IdentityPlusTranslation ==
    (IsMatrixRun /\ fnIn.pose.rotation = <<0, 0, 0>>) =>
        LET tr == fnIn.pose.translation
        IN  fnOut = <<Scale, 0, 0, 0,
                      0, Scale, 0, 0,
                      0, 0, Scale, 0,
                      2 * tr[1], -(2 * tr[2]), tr[3] + Scale, Scale>>

\* zero rotation and translation written over a buffer of leftovers
C7_Witness ==
    /\ IsMatrixRun
    /\ fnIn.pose.rotation = <<0, 0, 0>>
    /\ fnIn.pose.translation = <<0, 0, 0>>
    /\ fnIn.matrix[4] = 777
    /\ fnOut[15] = Scale
    /\ fnOut[4] = 0

\* C8: the upper-left 3x3 block (element [row*4+col]) is Rz(roll)*Ry(yaw)*Rx(pitch)
\* for the standard right-handed rotations; with pitch = yaw = 0 its upper-left
\* 2x2 block is the plane rotation by roll.
C8_RotationOrder ==
    IsMatrixRun =>
        LET cx == Cos(fnIn.pose.rotation[1])
            sx == Sin(fnIn.pose.rotation[1])
            cy == Cos(fnIn.pose.rotation[2])
            sy == Sin(fnIn.pose.rotation[2])
            cz == Cos(fnIn.pose.rotation[3])
            sz == Sin(fnIn.pose.rotation[3])
            P3(a, b, c) == FMul(FMul(a, b), c)
            El(row, col) == fnOut[row * 4 + col + 1]
        IN  /\ El(0, 0) = FMul(cz, cy)
            /\ El(0, 1) = P3(cz, sy, sx) - FMul(sz, cx)
            /\ El(0, 2) = P3(cz, sy, cx) + FMul(sz, sx)
            /\ El(1, 0) = FMul(sz, cy)
            /\ El(1, 1) = P3(sz, sy, sx) + FMul(cz, cx)
            /\ El(1, 2) = P3(sz, sy, cx) - FMul(cz, sx)
            /\ El(2, 0) = -sy
            /\ El(2, 1) = FMul(cy, sx)
            /\ El(2, 2) = FMul(cy, cx)
            /\ (fnIn.pose.rotation[1] = 0 /\ fnIn.pose.rotation[2] = 0)
                  => (El(0, 0) = cz /\ El(0, 1) = -sz /\ El(1, 0) = sz /\ El(1, 1) = cz)

\* three different non-zero angles
C8_Witness ==
    /\ IsMatrixRun
    /\ fnIn.pose.rotation = <<524, 927, -644>>
    /\ fnOut[1] = 480
    /\ fnOut[9] = -800

\* the three fields of a FaceResult that Impl::processFrame fills
Detection(r) == <<r.hasFace, r.confidence, r.landmarks>>

\* what a successful processFrame finds in a frame
Detected == Detection(Detect(DefaultFaceResult))

\* C9: the cache carries hasFace, confidence and landmarks of the latest
\* successful processFrame since the last reset and is the all-default
\* FaceResult when there was none; null-frame processFrame and getLastResult
\* calls do not change it, and getLastResult returns it as it is.
C9_CacheIsLatestSuccess ==
    /\ IF hist.lastWrite = "store"
       THEN Detection(lastResult_) = Detected /\ lastResult_.hasFace
       ELSE lastResult_ = DefaultFaceResult
    /\ \A t \in Threads :
          (pc[t] = "pf_done" /\ pixelBuffer[t] = "frame") => (Detection(result[t]) = Detected)
    /\ \A t \in Threads :
          (pc[t] = "glr_done") =>
              IF seen[t].lastWrite = "store"
              THEN Detection(result[t]) = Detected
              ELSE result[t] = DefaultFaceResult

\* getLastResult returned a cached face although a null-frame processFrame
\* ran since the last reset
C9_Witness ==
    \E t \in Threads :
        /\ pc[t] = "glr_done"
        /\ seen[t].lastWrite = "store"
        /\ ~seen[t].clean
        /\ result[t].hasFace
        /\ Len(result[t].landmarks) = 478

WellFormed(r) ==
    /\ (r.hasFace = FALSE) => (r.landmarks = <<>>)
    /\ (r.hasFace = TRUE) => (Len(r.landmarks) = 478)

\* C10: the cache and every FaceResult returned by processFrame or
\* getLastResult have no landmarks when hasFace is false and exactly 478 when
\* it is true.
C10_LandmarksMatchHasFace ==
    /\ WellFormed(lastResult_)
    /\ \A t \in Threads : (pc[t] \in {"pf_done", "glr_done"}) => WellFormed(result[t])

\* a processFrame returned a 478-point face that is also the cached one
C10_Witness ==
    \E t \in Threads :
        /\ pc[t] = "pf_done"
        /\ result[t].hasFace
        /\ Len(result[t].landmarks) = 478
        /\ lastResult_.hasFace
        /\ Len(lastResult_.landmarks) = 478

\* thread t is inside a call: it has issued it and the call has not returned
InFlight(t) == pc[t] \notin (DoneStages \cup {"idle"})

\* C11: under fair scheduling no call stays in flight for ever, so every call a
\* thread has issued returns, and no thread keeps the mutex for ever - also not
\* a processFrame that returns early on a null frame.
C11_EveryCallReturns ==
    \A t \in Threads : []<>(~InFlight(t)) /\ []<>(mutex_ # t)

\* a null-frame processFrame and a call of another thread have both returned,
\* and the mutex is free
C11_Witness ==
    \E t, u \in Threads :
        /\ t # u
        /\ pc[t] = "pf_done"
        /\ pixelBuffer[t] = "null"
        /\ pc[u] \in DoneStages
        /\ mutex_ = 0

====
